---- MODULE Spec2Model ----
(***************************************************************************)
(* Model of the document parser/viewer: the geometry and edit-tracking     *)
(* helpers of src/src/utils.py, the extraction adapter of                  *)
(* src/src/parser.py and the session state handled by the script of        *)
(* src/src/interactive_ui.py.                                              *)
(*                                                                         *)
(* Python lists are sequences (index i of the code is position i+1 here),  *)
(* a coordinates value of None is the empty sequence <<>>, a point (x, y)  *)
(* is the pair <<x, y>>.  Pixel values are integers.                       *)
(***************************************************************************)
EXTENDS Integers, Sequences, FiniteSets, TLC

VARIABLES
    region,            \* the "Re-parse Region" column for one element (geometry only)
    call,              \* one direct call of an edit helper of utils.py
    heap,              \* the element dicts: object identity -> element
    has_parse_results, \* 'parse_results' in st.session_state
    parse_results,     \* st.session_state['parse_results']: filename -> list of element objects
    has_edit_tracking, \* 'edit_tracking' in st.session_state
    edit_tracking,     \* st.session_state['edit_tracking']: filename -> record
    selected_file,     \* value of the file selectbox
    tmp_files,         \* number of temporary files left on disk by parse_region
    last               \* what the last script run did and reported

vars == << region, call, heap, has_parse_results, parse_results,
           has_edit_tracking, edit_tracking, selected_file, tmp_files, last >>

----------------------------------------------------------------------------
(* Bounds *)

\* number of re-parses whose adjusted box is stored back, in SpecAdjust
MaxCommits == 1

\* longest element list handed to an edit helper in SpecUtils
MaxLen == 2

\* number of leaked temporary files after which no further leak is modelled
MaxTmp == 2

----------------------------------------------------------------------------
(* Python built-ins *)

py_max(a, b) == IF b > a THEN b ELSE a

py_min(a, b) == IF b < a THEN b ELSE a

Largest(S) == CHOOSE x \in S : \A y \in S : y <= x

Smallest(S) == CHOOSE x \in S : \A y \in S : x <= y

\* the None of an absent coordinates value
None == <<>>

----------------------------------------------------------------------------
(* Geometry Adjuster: utils.py *)

xs_of(coordinates) == { coordinates[i][1] : i \in DOMAIN coordinates }

ys_of(coordinates) == { coordinates[i][2] : i \in DOMAIN coordinates }

\* (min_x, max_x, min_y, max_y) of a non-empty coordinate list
bounding_box(coordinates) ==
    << Smallest(xs_of(coordinates)), Largest(xs_of(coordinates)),
       Smallest(ys_of(coordinates)), Largest(ys_of(coordinates)) >>

\* variant: the x clamp uses the image height and the y clamp the image width
adjust_coordinates_swapped(coordinates, left_adjust, right_adjust, top_adjust, bottom_adjust, image_width, image_height) ==
    LET bb == bounding_box(coordinates)
        new_min_x == py_max(0, bb[1] - left_adjust)
        new_max_x == py_min(image_height, bb[2] + right_adjust)
        new_min_y == py_max(0, bb[3] - top_adjust)
        new_max_y == py_min(image_width, bb[4] + bottom_adjust)
    IN  << <<new_min_x, new_min_y>>, <<new_max_x, new_min_y>>,
           <<new_max_x, new_max_y>>, <<new_min_x, new_max_y>> >>

\* variant: the lower clamp of the left and top edges is missing
adjust_coordinates_noclamp(coordinates, left_adjust, right_adjust, top_adjust, bottom_adjust, image_width, image_height) ==
    LET bb == bounding_box(coordinates)
        new_min_x == bb[1] - left_adjust
        new_max_x == py_min(image_width, bb[2] + right_adjust)
        new_min_y == bb[3] - top_adjust
        new_max_y == py_min(image_height, bb[4] + bottom_adjust)
    IN  << <<new_min_x, new_min_y>>, <<new_max_x, new_min_y>>,
           <<new_max_x, new_max_y>>, <<new_min_x, new_max_y>> >>

adjust_coordinates(coordinates, left_adjust, right_adjust, top_adjust, bottom_adjust, image_width, image_height) ==
    LET bb == bounding_box(coordinates)
        new_min_x == py_max(0, bb[1] - left_adjust)
        new_max_x == py_min(image_width, bb[2] + right_adjust)
        new_min_y == py_max(0, bb[3] - top_adjust)
        new_max_y == py_min(image_height, bb[4] + bottom_adjust)
    IN  << <<new_min_x, new_min_y>>,     \* top-left
           <<new_max_x, new_min_y>>,     \* top-right
           <<new_max_x, new_max_y>>,     \* bottom-right
           <<new_min_x, new_max_y>> >>   \* bottom-left

\* variant: the size is taken from the corners, right minus left and bottom
\* minus top, not from max minus min
get_bounding_box_size_corners(coordinates) ==
    << coordinates[2][1] - coordinates[1][1],
       coordinates[3][2] - coordinates[2][2] >>

\* int() of an integer is the integer itself
get_bounding_box_size(coordinates) ==
    LET bb == bounding_box(coordinates)
    IN  << bb[2] - bb[1], bb[4] - bb[3] >>

----------------------------------------------------------------------------
(* The "Re-parse Region" column of the page, for one element with          *)
(* coordinates: the four number inputs, the adjusted box computed on every *)
(* script run and the box stored back by a successful re-parse.            *)

\* limits of the four st.number_input widgets
AdjustMin == -2000

AdjustMax == 2000

\* values the user enters in the model: the two limits and the default
AdjustValues == { AdjustMin, 0, AdjustMax }

\* the box of the spec's scenarios
ScenarioBox == << <<100, 100>>, <<300, 100>>, <<300, 200>>, <<100, 200>> >>

\* polygons as the extraction library reports them, inside the image
ParsedPolygons ==
    { ScenarioBox,
      << <<0, 0>>, <<350, 40>>, <<200, 300>> >>,
      << <<400, 300>> >> }

\* img.size of the page
ImageSizes == { <<400, 300>> }

InRange(c, image_width, image_height) ==
    \A i \in DOMAIN c : /\ 0 <= c[i][1] /\ c[i][1] <= image_width
                        /\ 0 <= c[i][2] /\ c[i][2] <= image_height

FrozenRegion ==
    [ coordinates |-> ScenarioBox, image_width |-> 400, image_height |-> 300,
      adjust |-> <<0, 0, 0, 0>>, adjusted_coords |-> ScenarioBox, commits |-> 0 ]

\* lines 267-275 of interactive_ui.py: the adjusted box of this script run
Adjusted(coordinates, adjust, image_width, image_height) ==
    adjust_coordinates(coordinates, adjust[1], adjust[2], adjust[3], adjust[4],
                       image_width, image_height)

RegionInit ==
    \E c \in ParsedPolygons, size \in ImageSizes :
        /\ InRange(c, size[1], size[2])
        /\ region = [ coordinates |-> c, image_width |-> size[1],
                      image_height |-> size[2], adjust |-> <<0, 0, 0, 0>>,
                      adjusted_coords |-> Adjusted(c, <<0, 0, 0, 0>>, size[1], size[2]),
                      commits |-> 0 ]

\* the user changes the number inputs; the script reruns and recomputes the box
SetAdjust ==
    \E l \in AdjustValues, r \in AdjustValues, t \in AdjustValues, b \in AdjustValues :
        /\ region' = [ region EXCEPT
                         !.adjust = <<l, r, t, b>>,
                         !.adjusted_coords =
                             Adjusted(region.coordinates, <<l, r, t, b>>,
                                      region.image_width, region.image_height) ]
        /\ UNCHANGED << call, heap, has_parse_results, parse_results,
                        has_edit_tracking, edit_tracking, selected_file,
                        tmp_files, last >>

\* a successful re-parse stores the adjusted box as the element's coordinates;
\* st.rerun() then recomputes the adjusted box from the stored one, the
\* number inputs keeping their values
StoreAdjusted ==
    /\ region.commits < MaxCommits
    /\ region' = [ region EXCEPT
                     !.coordinates = region.adjusted_coords,
                     !.adjusted_coords =
                         Adjusted(region.adjusted_coords, region.adjust,
                                  region.image_width, region.image_height),
                     !.commits = region.commits + 1 ]
    /\ UNCHANGED << call, heap, has_parse_results, parse_results,
                    has_edit_tracking, edit_tracking, selected_file,
                    tmp_files, last >>

----------------------------------------------------------------------------
(* Elements and the object heap.  An element is a Python dict with the     *)
(* keys type, text and coordinates; lists hold references to dicts, so two *)
(* lists may share an element.  An object is named after the list slot it  *)
(* was created for: <<list, filename, position>>.                          *)

Range(f) == { f[x] : x \in DOMAIN f }

\* the elements a list of references denotes
Values(h, list) == [ i \in DOMAIN list |-> h[list[i]] ]

\* objects for the slots 1..Len(values) of the list `kind` of file f
Slots(kind, f, n) == [ i \in 1..n |-> <<kind, f, i>> ]

\* h with a new object per element of `values`, in the slots of `kind`, f
Allocate(h, kind, f, values) ==
    LET new == Range(Slots(kind, f, Len(values)))
    IN  [ a \in (DOMAIN h) \cup new |->
            IF a \in new THEN values[a[3]] ELSE h[a] ]

\* copy.deepcopy of a list of elements: new objects with equal contents
deepcopy(h, list, kind, f) ==
    [ heap |-> Allocate(h, kind, f, Values(h, list)),
      list |-> Slots(kind, f, Len(list)) ]

----------------------------------------------------------------------------
(* Edit Tracker: utils.py *)

\* variant: 'current' is the parse result's own list, not a copy of it
initialize_edit_tracking_shared(h, elements, f) ==
    LET o == deepcopy(h, elements, "original", f)
    IN  [ heap |-> o.heap,
          record |-> [ original |-> o.list, current |-> elements,
                       edited_indices |-> {} ] ]

initialize_edit_tracking(h, elements, f) ==
    LET o == deepcopy(h, elements, "original", f)
        c == deepcopy(o.heap, elements, "current", f)
    IN  [ heap |-> c.heap,
          record |-> [ original |-> o.list, current |-> c.list,
                       edited_indices |-> {} ] ]

\* variant: the text is cleared along with the relabel
update_element_type_clears(h, elements, element_index, new_type) ==
    [ heap |-> IF 0 <= element_index /\ element_index < Len(elements)
               THEN [ h EXCEPT ![elements[element_index + 1]].type = new_type,
                               ![elements[element_index + 1]].text = "" ]
               ELSE h,
      elements |-> elements,
      raised |-> FALSE ]

\* variant: the list returned ends at the relabelled element
update_element_type_truncates(h, elements, element_index, new_type) ==
    [ heap |-> IF 0 <= element_index /\ element_index < Len(elements)
               THEN [ h EXCEPT ![elements[element_index + 1]].type = new_type ]
               ELSE h,
      elements |-> IF 0 <= element_index /\ element_index < Len(elements)
                   THEN SubSeq(elements, 1, element_index + 1)
                   ELSE elements,
      raised |-> FALSE ]

update_element_type(h, elements, element_index, new_type) ==
    [ heap |-> IF 0 <= element_index /\ element_index < Len(elements)
               THEN [ h EXCEPT ![elements[element_index + 1]].type = new_type ]
               ELSE h,
      elements |-> elements,
      raised |-> FALSE ]

\* variant: the lower bound of the index test is missing, so a negative
\* index counts from the end of the list as Python indexing does, and
\* raises IndexError when it reaches before the first element
replace_element_with_reparsed_negative(h, elements, element_index, new_text) ==
    LET pos == IF element_index >= 0 THEN element_index + 1
               ELSE Len(elements) + element_index + 1
    IN  [ heap |-> IF element_index < Len(elements) /\ pos >= 1
                   THEN [ h EXCEPT ![elements[pos]].text = new_text ]
                   ELSE h,
          elements |-> elements,
          raised |-> element_index < Len(elements) /\ pos < 1 ]

replace_element_with_reparsed(h, elements, element_index, new_text) ==
    [ heap |-> IF 0 <= element_index /\ element_index < Len(elements)
               THEN [ h EXCEPT ![elements[element_index + 1]].text = new_text ]
               ELSE h,
      elements |-> elements,
      raised |-> FALSE ]

RECURSIVE sorted(_)
\* sorted() of a set of integers, as a list
sorted(S) ==
    IF S = {} THEN << >>
    ELSE << Smallest(S) >> \o sorted(S \ { Smallest(S) })

\* the return value "No edits made": one line that names no element
NoEditsMade == << [ text |-> "No edits made", element |-> 0, changes |-> << >> ] >>

\* the changes list of one edited index: <<"Type", a, b>> stands for
\* "Type: a -> b" (with the arrow of the code), <<"Text modified">> for itself
changes_of(h, tracking, idx) ==
    LET original == h[tracking.original[idx + 1]]
        current  == h[tracking.current[idx + 1]]
    IN  ( IF original.type # current.type
          THEN << << "Type", original.type, current.type >> >> ELSE << >> )
        \o
        ( IF original.text # current.text
          THEN << << "Text modified" >> >> ELSE << >> )

\* variant: a line is appended for every edited index, changed or not
get_edit_summary_every_index(h, tracking) ==
    IF tracking.edited_indices = {}
    THEN NoEditsMade
    ELSE LET indices == sorted(tracking.edited_indices)
         IN  [ k \in DOMAIN indices |->
                 [ text |-> "Element", element |-> indices[k] + 1,
                   changes |-> changes_of(h, tracking, indices[k]) ] ]

\* variant: the line shows the index, not the element number
get_edit_summary_zero_based(h, tracking) ==
    IF tracking.edited_indices = {}
    THEN NoEditsMade
    ELSE LET indices == sorted(tracking.edited_indices)
             parts == [ k \in DOMAIN indices |->
                          [ text |-> "Element", element |-> indices[k],
                            changes |-> changes_of(h, tracking, indices[k]) ] ]
             Changed(part) == part.changes # << >>
         IN  SelectSeq(parts, Changed)

\* get_edit_summary: the lines of the string returned, "\n".join of no
\* line being the empty list
get_edit_summary(h, tracking) ==
    IF tracking.edited_indices = {}
    THEN NoEditsMade
    ELSE LET indices == sorted(tracking.edited_indices)
             parts == [ k \in DOMAIN indices |->
                          [ text |-> "Element", element |-> indices[k] + 1,
                            changes |-> changes_of(h, tracking, indices[k]) ] ]
             Changed(part) == part.changes # << >>
         IN  SelectSeq(parts, Changed)

----------------------------------------------------------------------------
(* Direct calls of the two edit helpers on an arbitrary list and index.    *)

\* the keys of the colour legend offered by the "New Element Type" selectbox
\* that the model uses
NewTypes == { "Header", "Title" }

\* texts an extraction returns in the model
Texts == { "T1", "T2" }

\* elements of the lists handed to the helpers
ArgElements ==
    [ type : { "Title", "Table" }, text : Texts, coordinates : { None, ScenarioBox } ]

ArgLists == UNION { [ 1..n -> ArgElements ] : n \in 0..MaxLen }

FrozenCall ==
    [ fn |-> "none", elements |-> <<>>, index |-> 0, arg |-> "",
      before |-> <<>>, returned |-> <<>>, raised |-> FALSE ]

CallInit ==
    \E values \in ArgLists :
        /\ heap = Allocate(<<>>, "arg", "", values)
        /\ call = [ fn |-> "none", elements |-> Slots("arg", "", Len(values)),
                    index |-> 0, arg |-> "", before |-> values,
                    returned |-> <<>>, raised |-> FALSE ]

CallUpdateElementType ==
    \E element_index \in -1..(MaxLen + 1), new_type \in NewTypes :
        LET r == update_element_type(heap, call.elements, element_index, new_type)
        IN  /\ heap' = r.heap
            /\ call' = [ fn |-> "update_element_type", elements |-> call.elements,
                         index |-> element_index, arg |-> new_type,
                         before |-> Values(heap, call.elements),
                         returned |-> r.elements, raised |-> r.raised ]
            /\ UNCHANGED << region, has_parse_results, parse_results,
                            has_edit_tracking, edit_tracking, selected_file,
                            tmp_files, last >>

CallReplaceElement ==
    \E element_index \in -1..(MaxLen + 1), new_text \in Texts :
        LET r == replace_element_with_reparsed(heap, call.elements,
                                               element_index, new_text)
        IN  /\ heap' = r.heap
            /\ call' = [ fn |-> "replace_element_with_reparsed",
                         elements |-> call.elements, index |-> element_index,
                         arg |-> new_text,
                         before |-> Values(heap, call.elements),
                         returned |-> r.elements, raised |-> r.raised ]
            /\ UNCHANGED << region, has_parse_results, parse_results,
                            has_edit_tracking, edit_tracking, selected_file,
                            tmp_files, last >>

----------------------------------------------------------------------------
(* The file system and the extraction library, as the program sees them.   *)

\* values typed into the "Data Folder Path" input
Folders == { "data", "scans", "archive", "empty", "missing" }

\* Path(folder_path).exists()
folder_exists(folder_path) == folder_path # "missing"

\* the TIFF files of a folder, in sorted order
folder_files(folder_path) ==
    CASE folder_path = "data"  -> << "a.tiff", "b.tiff", "c.tiff" >>
      [] folder_path = "scans" -> << "a.tiff", "blank.tiff" >>
      [] folder_path = "archive" -> << "a.tiff", "b.tiff" >>
      [] OTHER                 -> << >>

\* partition_image on a whole page: the elements it reports, or an error
partition_image(folder_path, name) ==
    CASE folder_path = "data" /\ name = "a.tiff" ->
            [ raised |-> FALSE,
              elements |-> << [ type |-> "Title", text |-> "T1",
                                coordinates |-> ScenarioBox ],
                              [ type |-> "NarrativeText", text |-> "T2",
                                coordinates |-> None ] >> ]
      [] folder_path = "data" /\ name = "b.tiff" ->
            [ raised |-> FALSE,
              elements |-> << [ type |-> "Table", text |-> "T1",
                                coordinates |-> ScenarioBox ] >> ]
      [] folder_path = "scans" /\ name = "a.tiff" ->
            [ raised |-> FALSE,
              elements |-> << [ type |-> "Header", text |-> "T2",
                                coordinates |-> ScenarioBox ] >> ]
      [] folder_path = "scans" /\ name = "blank.tiff" ->
            [ raised |-> FALSE, elements |-> << >> ]
      [] folder_path = "archive" /\ name = "b.tiff" ->
            [ raised |-> FALSE,
              elements |-> << [ type |-> "ListItem", text |-> "T2",
                                coordinates |-> None ] >> ]
      [] OTHER ->
            [ raised |-> TRUE, elements |-> << >> ]

\* img.size of a page
image_size(name) == << 400, 300 >>

\* file names in the order of sorted()
FileOrder == << "a.tiff", "b.tiff", "blank.tiff", "c.tiff" >>

\* list(results.keys())[0]: dicts keep insertion order, files are parsed sorted
first_key(results) ==
    FileOrder[Smallest({ i \in DOMAIN FileOrder : FileOrder[i] \in DOMAIN results })]

----------------------------------------------------------------------------
(* Extraction adapter: parser.py *)

scan_data_folder(folder_path) ==
    IF ~ folder_exists(folder_path)
    THEN [ raised |-> TRUE, files |-> << >> ]
    ELSE [ raised |-> FALSE, files |-> folder_files(folder_path) ]

parse_single_tiff(folder_path, name) == partition_image(folder_path, name)

RECURSIVE parse_files_break(_, _, _)
\* variant: the loop ends at the first file whose parse raises
parse_files_break(folder_path, files, results) ==
    IF files = << >>
    THEN results
    ELSE LET name == Head(files)
             parsed_data == parse_single_tiff(folder_path, name)
         IN  IF parsed_data.raised
             THEN results
             ELSE parse_files_break(folder_path, Tail(files),
                      [ n \in (DOMAIN results) \cup { name } |->
                          IF n = name THEN parsed_data.elements ELSE results[n] ])

RECURSIVE parse_files(_, _, _)
\* the loop of parse_all_tiffs over the remaining files
parse_files(folder_path, files, results) ==
    IF files = << >>
    THEN results
    ELSE LET name == Head(files)
             parsed_data == parse_single_tiff(folder_path, name)
         IN  parse_files(folder_path, Tail(files),
                 IF parsed_data.raised
                 THEN results
                 ELSE [ n \in (DOMAIN results) \cup { name } |->
                          IF n = name THEN parsed_data.elements ELSE results[n] ])

parse_all_tiffs(folder_path) ==
    LET tiff_files == scan_data_folder(folder_path)
    IN  IF tiff_files.raised
        THEN [ raised |-> TRUE, results |-> << >> ]
        ELSE [ raised |-> FALSE,
               results |-> parse_files(folder_path, tiff_files.files, << >>) ]

\* what can happen inside one call of parse_region
RegionOutcomes ==
    { "ok", "open_raises", "crop_raises", "tempfile_raises", "save_raises",
      "partition_raises" }

\* parse_region: the temporary file exists once NamedTemporaryFile has
\* returned; os.unlink runs in the finally of the try around partition_image
parse_region(tmp, outcome, text) ==
    LET created  == outcome \in { "save_raises", "partition_raises", "ok" }
        unlinked == outcome \in { "partition_raises", "ok" }
    IN  [ raised |-> outcome # "ok",
          text |-> IF outcome = "ok" THEN text ELSE "",
          created |-> created,
          tmp_files |-> IF created /\ ~ unlinked THEN tmp + 1 ELSE tmp ]

----------------------------------------------------------------------------
(* The page script of interactive_ui.py.  Streamlit runs main() from the   *)
(* top for every user interaction, so an action is one script run: the     *)
(* part every run executes, then the handler of the button that was        *)
(* clicked.  A button can only be clicked if the previous run rendered it. *)

\* adjustments entered before a re-parse in the model: none, and the
\* largest expansion on every side
ReparseAdjusts ==
    { << 0, 0, 0, 0 >>, << AdjustMax, AdjustMax, AdjustMax, AdjustMax >> }

NoLast == [ op |-> "start", index |-> -1, arg |-> "", raised |-> FALSE ]

\* the heap holding exactly the elements of a fresh parse result
parsed_heap(results) ==
    [ a \in UNION { Range(Slots("parsed", n, Len(results[n]))) : n \in DOMAIN results }
        |-> results[a[2]][a[3]] ]

\* lines 98-102: the record of the selected file is created on first view
show_file(h, has_et, et, results, f) ==
    LET et0 == IF has_et THEN et ELSE << >>
    IN  IF f \in DOMAIN et0
        THEN [ heap |-> h, edit_tracking |-> et0 ]
        ELSE LET init == initialize_edit_tracking(h, results[f], f)
             IN  [ heap |-> init.heap,
                   edit_tracking |->
                       [ n \in (DOMAIN et0) \cup { f } |->
                           IF n = f THEN init.record ELSE et0[n] ] ]

\* the previous run showed the page of the selected file
Rendered ==
    /\ has_parse_results
    /\ selected_file \in DOMAIN parse_results
    /\ has_edit_tracking
    /\ selected_file \in DOMAIN edit_tracking

\* the previous run reached the widgets below the two "Element Number"
\* inputs, which need at least one element (min_value=1, max_value=len)
EditorRendered ==
    /\ Rendered
    /\ Len(edit_tracking[selected_file].current) >= 1

AppInit ==
    /\ heap = << >>
    /\ has_parse_results = FALSE
    /\ parse_results = << >>
    /\ has_edit_tracking = FALSE
    /\ edit_tracking = << >>
    /\ selected_file = ""
    /\ tmp_files = 0
    /\ last = NoLast
    /\ region = FrozenRegion
    /\ call = FrozenCall

\* variant: the reload leaves st.session_state['edit_tracking'] in place
LoadReload_keeps_records ==
    \E data_folder \in Folders :
        LET loaded == parse_all_tiffs(data_folder)
            results == [ n \in DOMAIN loaded.results |->
                           Slots("parsed", n, Len(loaded.results[n])) ]
            fresh == parsed_heap(loaded.results)
            kept == { a \in DOMAIN heap : a[1] # "parsed" }
            merged == [ a \in (DOMAIN fresh) \cup kept |->
                          IF a \in DOMAIN fresh THEN fresh[a] ELSE heap[a] ]
        IN  IF loaded.raised
            THEN /\ last' = [ NoLast EXCEPT !.op = "load", !.arg = data_folder,
                                             !.raised = TRUE ]
                 /\ UNCHANGED << region, call, heap, has_parse_results,
                                 parse_results, has_edit_tracking, edit_tracking,
                                 selected_file, tmp_files >>
            ELSE /\ has_parse_results' = TRUE
                 /\ parse_results' = results
                 /\ last' = [ NoLast EXCEPT !.op = "load", !.arg = data_folder ]
                 /\ IF DOMAIN results = {}
                    THEN /\ heap' = merged
                         /\ UNCHANGED << has_edit_tracking, edit_tracking,
                                         selected_file >>
                    ELSE \E f \in { first_key(results) }
                                  \cup ({ selected_file } \cap DOMAIN results) :
                            LET shown == show_file(merged, has_edit_tracking,
                                                   edit_tracking, results, f)
                            IN  /\ selected_file' = f
                                /\ heap' = shown.heap
                                /\ has_edit_tracking' = TRUE
                                /\ edit_tracking' = shown.edit_tracking
                 /\ UNCHANGED << region, call, tmp_files >>

\* "Load/Reload TIFFs": lines 41-51, then the rest of the run
LoadReload ==
    \E data_folder \in Folders :
        LET loaded == parse_all_tiffs(data_folder)
            results == [ n \in DOMAIN loaded.results |->
                           Slots("parsed", n, Len(loaded.results[n])) ]
        IN  IF loaded.raised
            THEN /\ last' = [ NoLast EXCEPT !.op = "load", !.arg = data_folder,
                                             !.raised = TRUE ]
                 /\ UNCHANGED << region, call, heap, has_parse_results,
                                 parse_results, has_edit_tracking, edit_tracking,
                                 selected_file, tmp_files >>
            ELSE /\ has_parse_results' = TRUE
                 /\ parse_results' = results
                 /\ last' = [ NoLast EXCEPT !.op = "load", !.arg = data_folder ]
                 /\ IF DOMAIN results = {}
                    THEN /\ heap' = << >>
                         /\ has_edit_tracking' = FALSE
                         /\ edit_tracking' = << >>
                         /\ UNCHANGED selected_file
                    ELSE \E f \in { first_key(results) }
                                  \cup ({ selected_file } \cap DOMAIN results) :
                            LET shown == show_file(parsed_heap(loaded.results),
                                                   FALSE, << >>, results, f)
                            IN  /\ selected_file' = f
                                /\ heap' = shown.heap
                                /\ has_edit_tracking' = TRUE
                                /\ edit_tracking' = shown.edit_tracking
                 /\ UNCHANGED << region, call, tmp_files >>

\* the user picks a file in the selectbox (or changes a display option)
ViewFile ==
    \E f \in DOMAIN parse_results :
        LET shown == show_file(heap, has_edit_tracking, edit_tracking,
                               parse_results, f)
        IN  /\ has_parse_results
            /\ selected_file' = f
            /\ heap' = shown.heap
            /\ has_edit_tracking' = TRUE
            /\ edit_tracking' = shown.edit_tracking
            /\ last' = [ NoLast EXCEPT !.op = "view" ]
            /\ UNCHANGED << region, call, has_parse_results, parse_results,
                            tmp_files >>

\* variant: a relabel back to the original type takes the element out of
\* edited_indices
UpdateType_unmarks ==
    /\ EditorRendered
    /\ \E element_to_edit \in 1..Len(edit_tracking[selected_file].current),
          new_type \in NewTypes :
          LET idx == element_to_edit - 1
              rec == edit_tracking[selected_file]
              r   == update_element_type(heap, rec.current, idx, new_type)
          IN  /\ heap' = r.heap
              /\ edit_tracking' =
                    [ edit_tracking EXCEPT
                        ![selected_file].current = r.elements,
                        ![selected_file].edited_indices =
                            IF heap[rec.original[idx + 1]].type = new_type
                            THEN rec.edited_indices \ { idx }
                            ELSE rec.edited_indices \cup { idx } ]
              /\ last' = [ op |-> "update_type", index |-> idx,
                           arg |-> new_type, raised |-> FALSE ]
    /\ UNCHANGED << region, call, has_parse_results, parse_results,
                    has_edit_tracking, selected_file, tmp_files >>

\* variant: the element number of the input, not the index, is marked edited
UpdateType_one_based ==
    /\ EditorRendered
    /\ \E element_to_edit \in 1..Len(edit_tracking[selected_file].current),
          new_type \in NewTypes :
          LET idx == element_to_edit - 1
              rec == edit_tracking[selected_file]
              r   == update_element_type(heap, rec.current, idx, new_type)
          IN  /\ heap' = r.heap
              /\ edit_tracking' =
                    [ edit_tracking EXCEPT
                        ![selected_file].current = r.elements,
                        ![selected_file].edited_indices =
                            rec.edited_indices \cup { element_to_edit } ]
              /\ last' = [ op |-> "update_type", index |-> idx,
                           arg |-> new_type, raised |-> FALSE ]
    /\ UNCHANGED << region, call, has_parse_results, parse_results,
                    has_edit_tracking, selected_file, tmp_files >>

\* "Update Type": lines 195-204
UpdateType ==
    /\ EditorRendered
    /\ \E element_to_edit \in 1..Len(edit_tracking[selected_file].current),
          new_type \in NewTypes :
          LET idx == element_to_edit - 1
              rec == edit_tracking[selected_file]
              r   == update_element_type(heap, rec.current, idx, new_type)
          IN  /\ heap' = r.heap
              /\ edit_tracking' =
                    [ edit_tracking EXCEPT
                        ![selected_file].current = r.elements,
                        ![selected_file].edited_indices =
                            rec.edited_indices \cup { idx } ]
              /\ last' = [ op |-> "update_type", index |-> idx,
                           arg |-> new_type, raised |-> FALSE ]
    /\ UNCHANGED << region, call, has_parse_results, parse_results,
                    has_edit_tracking, selected_file, tmp_files >>

\* variant: the element is marked edited before parse_region is called
Reparse_marks_first ==
    /\ EditorRendered
    /\ \E element_to_reparse \in 1..Len(edit_tracking[selected_file].current),
          adjust \in ReparseAdjusts, outcome \in RegionOutcomes, text \in Texts :
          LET idx  == element_to_reparse - 1
              rec  == edit_tracking[selected_file]
              elem == heap[rec.current[idx + 1]]
              size == image_size(selected_file)
              adjusted_coords == Adjusted(elem.coordinates, adjust, size[1], size[2])
              parsed == parse_region(tmp_files, outcome, text)
              r    == replace_element_with_reparsed(heap, rec.current, idx, parsed.text)
          IN  /\ elem.coordinates # None
              /\ parsed.tmp_files <= MaxTmp
              /\ tmp_files' = parsed.tmp_files
              /\ IF parsed.raised
                 THEN /\ last' = [ op |-> "reparse", index |-> idx,
                                   arg |-> outcome, raised |-> TRUE ]
                      /\ heap' = heap
                      /\ edit_tracking' =
                            [ edit_tracking EXCEPT
                                ![selected_file].edited_indices =
                                    rec.edited_indices \cup { idx } ]
                 ELSE /\ heap' = [ r.heap EXCEPT
                                     ![r.elements[idx + 1]].coordinates = adjusted_coords ]
                      /\ edit_tracking' =
                            [ edit_tracking EXCEPT
                                ![selected_file].current = r.elements,
                                ![selected_file].edited_indices =
                                    rec.edited_indices \cup { idx } ]
                      /\ last' = [ op |-> "reparse", index |-> idx,
                                   arg |-> parsed.text, raised |-> FALSE ]
    /\ UNCHANGED << region, call, has_parse_results, parse_results,
                    has_edit_tracking, selected_file >>

\* "Re-parse with Adjusted Region": lines 216-219, 267-275 and 294-312
Reparse ==
    /\ EditorRendered
    /\ \E element_to_reparse \in 1..Len(edit_tracking[selected_file].current),
          adjust \in ReparseAdjusts, outcome \in RegionOutcomes, text \in Texts :
          LET idx  == element_to_reparse - 1
              rec  == edit_tracking[selected_file]
              elem == heap[rec.current[idx + 1]]
              size == image_size(selected_file)
              adjusted_coords == Adjusted(elem.coordinates, adjust, size[1], size[2])
              parsed == parse_region(tmp_files, outcome, text)
              r    == replace_element_with_reparsed(heap, rec.current, idx, parsed.text)
          IN  /\ elem.coordinates # None
              /\ parsed.tmp_files <= MaxTmp
              /\ tmp_files' = parsed.tmp_files
              /\ IF parsed.raised
                 THEN /\ last' = [ op |-> "reparse", index |-> idx,
                                   arg |-> outcome, raised |-> TRUE ]
                      /\ UNCHANGED << heap, edit_tracking >>
                 ELSE /\ heap' = [ r.heap EXCEPT
                                     ![r.elements[idx + 1]].coordinates = adjusted_coords ]
                      /\ edit_tracking' =
                            [ edit_tracking EXCEPT
                                ![selected_file].current = r.elements,
                                ![selected_file].edited_indices =
                                    rec.edited_indices \cup { idx } ]
                      /\ last' = [ op |-> "reparse", index |-> idx,
                                   arg |-> parsed.text, raised |-> FALSE ]
    /\ UNCHANGED << region, call, has_parse_results, parse_results,
                    has_edit_tracking, selected_file >>

\* whether the record of the selected file holds a change
HasChanges ==
    LET rec == edit_tracking[selected_file]
    IN  IF Values(heap, rec.current) # Values(heap, rec.original)
        THEN "changed" ELSE "unchanged"

\* variant: the reset empties edited_indices and keeps the lists
ResetAllEdits_keeps_current ==
    /\ EditorRendered
    /\ heap' = heap
    /\ edit_tracking' = [ edit_tracking EXCEPT ![selected_file].edited_indices = {} ]
    /\ last' = [ NoLast EXCEPT !.op = "reset", !.arg = HasChanges ]
    /\ UNCHANGED << region, call, has_parse_results, parse_results,
                    has_edit_tracking, selected_file, tmp_files >>

\* "Reset All Edits": lines 327-330
ResetAllEdits ==
    /\ EditorRendered
    /\ LET init == initialize_edit_tracking(heap, parse_results[selected_file],
                                            selected_file)
       IN  /\ heap' = init.heap
           /\ edit_tracking' = [ edit_tracking EXCEPT ![selected_file] = init.record ]
    /\ last' = [ NoLast EXCEPT !.op = "reset", !.arg = HasChanges ]
    /\ UNCHANGED << region, call, has_parse_results, parse_results,
                    has_edit_tracking, selected_file, tmp_files >>

----------------------------------------------------------------------------
(* Specifications *)

Init == AppInit

Next == LoadReload \/ ViewFile \/ UpdateType \/ Reparse \/ ResetAllEdits

\* the session of the application
Spec == Init /\ [][Next]_vars

InitAdjust ==
    /\ RegionInit
    /\ call = FrozenCall
    /\ heap = << >>
    /\ has_parse_results = FALSE
    /\ parse_results = << >>
    /\ has_edit_tracking = FALSE
    /\ edit_tracking = << >>
    /\ selected_file = ""
    /\ tmp_files = 0
    /\ last = NoLast

NextAdjust == SetAdjust \/ StoreAdjusted

\* the geometry of the re-parse column
SpecAdjust == InitAdjust /\ [][NextAdjust]_vars

InitUtils ==
    /\ CallInit
    /\ region = FrozenRegion
    /\ has_parse_results = FALSE
    /\ parse_results = << >>
    /\ has_edit_tracking = FALSE
    /\ edit_tracking = << >>
    /\ selected_file = ""
    /\ tmp_files = 0
    /\ last = NoLast

NextUtils == CallUpdateElementType \/ CallReplaceElement

\* direct calls of update_element_type and replace_element_with_reparsed
SpecUtils == InitUtils /\ [][NextUtils]_vars

----------------------------------------------------------------------------
(* Properties of the geometry, checked under SpecAdjust *)

ZeroAdjust == << 0, 0, 0, 0 >>

\* C1: for every non-empty coordinate list, positive image size and
\* adjustment within the limits of the number inputs, the four points
\* returned by adjust_coordinates have x in [0, W] and y in [0, H].
C1_AdjustedWithinImage ==
    InRange(region.adjusted_coords, region.image_width, region.image_height)

\* C2 as stated: for the scenario box in a 400x300 image, a left adjustment
\* of -2000 (the others 0) gives a rectangle whose left edge is 0.
C2_ContractionLeftEdgeZero ==
    ( /\ region.coordinates = ScenarioBox
      /\ region.image_width = 400 /\ region.image_height = 300
      /\ region.adjust = << AdjustMin, 0, 0, 0 >> )
    => /\ region.adjusted_coords[1][1] = 0
       /\ region.adjusted_coords[4][1] = 0

\* C2 amended: for the scenario box in a 400x300 image, a left adjustment
\* of +2000 (the others 0) gives a rectangle whose left edge, the x of the
\* top-left and bottom-left corners, is 0.
C2_ExpansionLeftEdgeZero ==
    ( /\ region.coordinates = ScenarioBox
      /\ region.image_width = 400 /\ region.image_height = 300
      /\ region.adjust = << AdjustMax, 0, 0, 0 >> )
    => /\ region.adjusted_coords[1][1] = 0
       /\ region.adjusted_coords[4][1] = 0

C2_Witness ==
    /\ region.coordinates = ScenarioBox
    /\ region.image_width = 400 /\ region.image_height = 300
    /\ region.adjust = << AdjustMax, 0, 0, 0 >>
    /\ region.adjusted_coords[2][1] = 300

\* the no-op property of a zero adjustment on the polygon shown
ZeroAdjustKeepsBox ==
    /\ bounding_box(region.adjusted_coords) = bounding_box(region.coordinates)
    /\ Adjusted(region.adjusted_coords, ZeroAdjust,
                region.image_width, region.image_height) = region.adjusted_coords

\* C3 as stated: for every non-empty polygon and every image size, a zero
\* adjustment returns a rectangle with the polygon's bounding box, and
\* applying it again to the result returns the same rectangle.
C3_ZeroAdjustAnyPolygon ==
    region.adjust = ZeroAdjust => ZeroAdjustKeepsBox

\* C3 amended: for every non-empty polygon whose points all lie within
\* [0, W] x [0, H], a zero adjustment returns a rectangle with the
\* polygon's bounding box, and applying it again to the result returns the
\* same rectangle.
C3_ZeroAdjustInsideImage ==
    ( /\ region.adjust = ZeroAdjust
      /\ InRange(region.coordinates, region.image_width, region.image_height) )
    => ZeroAdjustKeepsBox

C3_Witness ==
    /\ region.adjust = ZeroAdjust
    /\ InRange(region.coordinates, region.image_width, region.image_height)
    /\ Len(region.coordinates) = 3
    /\ region.adjusted_coords # region.coordinates

\* line 276: the size shown for the adjusted box
NewSize == get_bounding_box_size(region.adjusted_coords)

\* C14: for every non-empty polygon, adjustment and positive image size,
\* contractions larger than the box included, get_bounding_box_size of the
\* adjusted coordinates returns a width and a height that are non-negative
\* integers.
C14_SizeNonNegative ==
    /\ NewSize[1] \in Nat
    /\ NewSize[2] \in Nat

\* a contraction larger than the box: the left edge lies right of the right
\* edge and the top edge below the bottom edge
C14_Witness ==
    /\ region.adjust[1] = AdjustMin
    /\ region.adjust[3] = AdjustMin
    /\ region.adjusted_coords[1][1] > region.adjusted_coords[2][1]
    /\ region.adjusted_coords[2][2] > region.adjusted_coords[3][2]
    /\ NewSize[1] > 0
    /\ NewSize[2] > 0

----------------------------------------------------------------------------
(* Properties of the edit helpers, checked under SpecUtils *)

IndexInRange == 0 <= call.index /\ call.index < Len(call.elements)

\* C6: update_element_type with an in-range index i sets the type of
\* element i to the new type and leaves its text and coordinates, every
\* other element and the length of the list unchanged.
C6_RelabelChangesOnlyType ==
    ( call.fn = "update_element_type" /\ IndexInRange )
    => /\ call.returned = call.elements
       /\ Values(heap, call.returned) =
              [ call.before EXCEPT ![call.index + 1].type = call.arg ]

C6_Witness ==
    /\ call.fn = "update_element_type"
    /\ IndexInRange
    /\ Len(call.elements) >= 2
    /\ call.before[call.index + 1].type # call.arg
    /\ heap[call.elements[call.index + 1]].type = call.arg

\* C7: for every index outside 0 <= index < len(elements), negative ones
\* and index = len(elements) included, update_element_type and
\* replace_element_with_reparsed return the list with every element
\* unchanged and raise no error.
C7_OutOfRangeIndexIgnored ==
    ( call.fn # "none" /\ ~ IndexInRange )
    => /\ call.returned = call.elements
       /\ Values(heap, call.returned) = call.before
       /\ ~ call.raised

C7_Witness ==
    /\ call.fn = "replace_element_with_reparsed"
    /\ call.index = -1
    /\ Len(call.elements) >= 1
    /\ call.before[Len(call.elements)].text # call.arg

----------------------------------------------------------------------------
(* Properties of the session, checked under Spec *)

\* the elements of every parse result
ParsedValues == [ n \in DOMAIN parse_results |-> Values(heap, parse_results[n]) ]

\* the elements of the original list of the record of file n
OriginalValues(n) == Values(heap, edit_tracking[n].original)

\* the elements of the current list of the record of file n
CurrentValues(n) == Values(heap, edit_tracking[n].current)

\* C4: after any sequence of relabels and region re-parses, Reset All Edits
\* leaves the record with current element-wise equal to original and
\* edited_indices empty.
C4_ResetRestoresOriginal ==
    last.op = "reset"
    => /\ CurrentValues(selected_file) = OriginalValues(selected_file)
       /\ edit_tracking[selected_file].edited_indices = {}

C4_Witness ==
    /\ last.op = "reset"
    /\ last.arg = "changed"
    /\ CurrentValues(selected_file) = ParsedValues[selected_file]

\* C5: no operation other than a reload, which discards the records and
\* replaces the parse results, changes the elements of the original list
\* of a record or the elements of a parse result.
C5_OriginalNeverMutated ==
    [][ last'.op # "load"
        => /\ ParsedValues' = ParsedValues
           /\ \A n \in (DOMAIN edit_tracking) \cap (DOMAIN edit_tracking') :
                 OriginalValues(n)' = OriginalValues(n) ]_vars

C5_Witness ==
    /\ last.op \in { "update_type", "reparse" }
    /\ ~ last.raised
    /\ CurrentValues(selected_file) # OriginalValues(selected_file)
    /\ OriginalValues(selected_file) = ParsedValues[selected_file]

\* C8: when the extraction call of a region re-parse raises, the edit
\* tracking records are exactly as before the action: no text, no
\* coordinates and no edited index has changed.
C8_FailedReparseChangesNothing ==
    [][ ( last'.op = "reparse" /\ last'.arg = "partition_raises" )
        => /\ edit_tracking' = edit_tracking
           /\ heap' = heap ]_vars

C8_Witness ==
    /\ last.op = "reparse"
    /\ last.arg = "partition_raises"
    /\ last.index \notin edit_tracking[selected_file].edited_indices
    /\ CurrentValues(selected_file) = OriginalValues(selected_file)

\* C9: on every exit path of parse_region after the temporary file was
\* created, no temporary file created by parse_region is left.
C9_NoTemporaryFileLeft == tmp_files = 0

\* C10: in every reachable state, the current and original lists of a
\* record have the length of the parse result of the document.
C10_LengthsEqual ==
    \A n \in DOMAIN edit_tracking :
        /\ Len(edit_tracking[n].current) = Len(edit_tracking[n].original)
        /\ Len(edit_tracking[n].original) = Len(parse_results[n])

C10_Witness ==
    /\ last.op = "update_type"
    /\ last.index = 0
    /\ Len(edit_tracking[selected_file].current) = 2
    /\ edit_tracking[selected_file].edited_indices = { 0, 1 }


\* the indices at which the current element of file n differs from the
\* original one in type, text or coordinates
ChangedIndices(n) ==
    { i \in 0..(Len(edit_tracking[n].current) - 1) :
        CurrentValues(n)[i + 1] # OriginalValues(n)[i + 1] }

\* C11: between two resets or reloads, edited_indices only grows: an index
\* that is in it stays in it through every later relabel, re-parse and
\* view, a relabel back to the original type included.
C11_EditedIndicesOnlyGrow ==
    [][ last'.op \in { "update_type", "reparse", "view" }
        => \A n \in DOMAIN edit_tracking :
              /\ n \in DOMAIN edit_tracking'
              /\ edit_tracking[n].edited_indices
                    \subseteq edit_tracking'[n].edited_indices ]_vars

C11_Witness ==
    /\ last.op = "update_type"
    /\ last.index \in edit_tracking[selected_file].edited_indices
    /\ Cardinality(edit_tracking[selected_file].edited_indices) = 2
    /\ last.index \notin ChangedIndices(selected_file)
    /\ ChangedIndices(selected_file) # {}

\* C17: in every reachable state of every record, every index at which
\* current differs from original in type, text or coordinates is in
\* edited_indices, and every member of edited_indices is an index of
\* current.
C17_ChangedIndicesAreMarked ==
    \A n \in DOMAIN edit_tracking :
        /\ ChangedIndices(n) \subseteq edit_tracking[n].edited_indices
        /\ edit_tracking[n].edited_indices
              \subseteq 0..(Len(edit_tracking[n].current) - 1)

C17_Witness ==
    /\ last.op = "reparse"
    /\ ~ last.raised
    /\ ChangedIndices(selected_file) = { 0 }
    /\ CurrentValues(selected_file)[1].text = OriginalValues(selected_file)[1].text
    /\ CurrentValues(selected_file)[1].type = OriginalValues(selected_file)[1].type
    /\ edit_tracking[selected_file].edited_indices = { 0 }
    /\ Len(edit_tracking[selected_file].current) = 2


\* the summary shown for the record of file n
Summary(n) == get_edit_summary(heap, edit_tracking[n])

\* the record of file n is as initialize_edit_tracking made it
Fresh(n) ==
    /\ edit_tracking[n].edited_indices = {}
    /\ CurrentValues(n) = ParsedValues[n]
    /\ OriginalValues(n) = ParsedValues[n]

VisiblyChanged(n) ==
    { i \in edit_tracking[n].edited_indices :
        \/ CurrentValues(n)[i + 1].type # OriginalValues(n)[i + 1].type
        \/ CurrentValues(n)[i + 1].text # OriginalValues(n)[i + 1].text }

\* C15: with edited_indices non-empty, get_edit_summary returns one line
\* for exactly the edited indices whose type or text differs between
\* original and current, in ascending index order, and none for an edited
\* index whose type and text both equal the original; with edited_indices
\* empty it returns the 'No edits made' sentinel.
C15_SummaryLines ==
    \A n \in DOMAIN edit_tracking :
        IF edit_tracking[n].edited_indices = {}
        THEN Summary(n) = NoEditsMade
        ELSE /\ \A k \in DOMAIN Summary(n) : Summary(n)[k].text = "Element"
             /\ { Summary(n)[k].element : k \in DOMAIN Summary(n) }
                   = { i + 1 : i \in VisiblyChanged(n) }
             /\ \A j, k \in DOMAIN Summary(n) :
                   j < k => Summary(n)[j].element < Summary(n)[k].element

C15_Witness ==
    /\ Rendered
    /\ edit_tracking[selected_file].edited_indices = { 0, 1 }
    /\ VisiblyChanged(selected_file) = { 1 }
    /\ ChangedIndices(selected_file) = { 0, 1 }
    /\ Len(Summary(selected_file)) = 1
    /\ Summary(selected_file)[1].element = 2


\* the files of a folder whose own parse succeeds
ParsableFiles(folder_path) ==
    { name \in Range(folder_files(folder_path)) :
        ~ partition_image(folder_path, name).raised }

\* C13: parse_all_tiffs on an existing folder returns exactly the files
\* whose own parse succeeds, whatever fails before or after them in the
\* sorted order; on a folder that does not exist a not-found error is
\* raised and no result is returned.
C13_BatchSkipsFailedFiles ==
    /\ [] ( last.op = "load"
            => IF folder_exists(last.arg)
               THEN /\ ~ last.raised
                    /\ has_parse_results
                    /\ DOMAIN parse_results = ParsableFiles(last.arg)
                    /\ \A n \in DOMAIN parse_results :
                          ParsedValues[n] = partition_image(last.arg, n).elements
               ELSE last.raised )
    /\ [][ ( last'.op = "load" /\ ~ folder_exists(last'.arg) )
           => UNCHANGED << has_parse_results, parse_results, heap,
                           has_edit_tracking, edit_tracking >> ]_vars

C13_Witness ==
    /\ last.op = "load"
    /\ last.arg = "archive"
    /\ DOMAIN parse_results = { "b.tiff" }
    /\ partition_image("archive", "a.tiff").raised


\* the record of file n with the elements its lists refer to
RecordValues(n) ==
    [ original |-> OriginalValues(n), current |-> CurrentValues(n),
      edited_indices |-> edit_tracking[n].edited_indices ]

\* C16: the record of a document is created on the first view of the
\* document and kept across later views and edits; a reload discards the
\* records of all documents, so that the first view of any document after
\* it shows a record with current equal to the elements of the reloaded
\* parse result and edited_indices empty.
C16_RecordLifecycle ==
    [][ /\ \A f \in DOMAIN parse_results :
              ( last'.op = "view" /\ selected_file' = f
                /\ f \notin DOMAIN edit_tracking )
              => Fresh(f)'
        /\ last'.op \in { "view", "update_type", "reparse", "reset" }
           => \A n \in DOMAIN edit_tracking :
                 /\ n \in DOMAIN edit_tracking'
                 /\ ( last'.op = "view" \/ n # selected_file )
                    => RecordValues(n)' = RecordValues(n)
        /\ ( last'.op = "load" /\ ~ last'.raised )
           => /\ DOMAIN edit_tracking' \subseteq { selected_file' }
              /\ DOMAIN edit_tracking' \subseteq DOMAIN parse_results'
              /\ \A n \in DOMAIN edit_tracking' : Fresh(n)' ]_vars

\* a reload that kept the selection of a file other than the first: the
\* only record is the one the run created for the file it shows
C16_Witness ==
    /\ last.op = "load"
    /\ ~ last.raised
    /\ DOMAIN parse_results = { "a.tiff", "b.tiff" }
    /\ selected_file = "b.tiff"
    /\ DOMAIN edit_tracking = { "b.tiff" }
    /\ Fresh("b.tiff")

====
